---- MODULE Spec2Model ----
(***************************************************************************)
(* A model of the DSL front-end (src/src/dsl.rs) and of the trace-driven   *)
(* compiler (src/src/compiler.rs).                                         *)
(*                                                                         *)
(* Options are modelled as sequences of length 0 or 1: <<>> is None and    *)
(* <<x>> is Some(x).  Maps (IndexMap, HashMap) are functions whose DOMAIN  *)
(* is the set of keys present.                                             *)
(***************************************************************************)
EXTENDS Integers, Sequences, FiniteSets, TLC

(***************************************************************************)
(* Bounds of the model.                                                    *)
(***************************************************************************)
\* largest value memory_last_idx may reach
MaxMem == 2
\* longest trace
MaxTrace == 2
\* longest hint list
MaxHint == 1
\* the same two bounds where the compiler runs on the DSL built
MaxMemC == 3
MaxTraceC == 2
\* longest list of declared outputs
MaxOutput == 2
\* the compiler on DSLs built by well-typed calls: memory, trace
MaxMemS == 3
MaxTraceS == 2
\* the compiler run twice on one DSL: memory, trace, declared outputs
MaxMemD == 2
MaxTraceD == 1
MaxOutputD == 1
\* the compiler on DSLs with hints: inputs, hints
MaxInputsH == 2
MaxHintsH == 2
\* the selector and the drainage copies run on a stack: entries of the stack
\* model, their widths 1..MaxWidthB, distances 0..MaxDistanceB
MaxEntriesB == 3
MaxWidthB == 2
MaxDistanceB == 4
\* the selector on its own: distances 0..MaxDistance, widths 1..MaxWidth
MaxDistance == 7
MaxWidth == 7

VARIABLES
    \* ---- DSL (src/src/dsl.rs:7-15)
    data_type_registry,
    function_registry,
    memory,
    memory_last_idx,
    trace,
    num_inputs,
    hint,
    \* ---- DSL.output, read by the compiler (src/src/compiler.rs:91,255)
    output,
    \* ---- history of the front-end calls
    last,           \* the last front-end call that returns a Result: [op, ok]
    lock_entries,   \* Some(number of memory entries at the first alloc_constant/execute)
    trace_ret,      \* per trace entry, the indices the front-end returned for it
    \* ---- Compiler::compiler (src/src/compiler.rs:14-320)
    pc,              \* where the compilation stands
    last_visit,
    input,
    stack,
    script,
    cur_time,
    allocated_idx,
    trace_pos,       \* 1-based position of the next trace entry to replay
    drain_pos,       \* 1-based position i+1 in output_list_rev of the next output
    output_total_len,
    call_log,        \* what the last replayed entry or drainage step decided
    \* ---- the target VM running the bytes as they are emitted: [main, alt, ok]
    vm,
    \* ---- the CompiledPrograms returned so far (src/src/compiler.rs:315-319)
    compiled,
    \* ---- a call of roll_script / pick_script on its own
    sel

fe_vars == <<data_type_registry, function_registry, memory, memory_last_idx,
             trace, num_inputs, hint, output, last, lock_entries, trace_ret>>

c_vars == <<pc, last_visit, input, stack, script, cur_time, allocated_idx, trace_pos,
            drain_pos, output_total_len, call_log, vm, compiled>>

vars == <<fe_vars, c_vars, sel>>

(***************************************************************************)
(* Option and map helpers.                                                 *)
(***************************************************************************)
None == <<>>
Some(x) == <<x>>
IsSome(o) == Len(o) = 1
IsNone(o) == Len(o) = 0

\* IndexMap::insert / HashMap::insert: add the key or overwrite its value
MapInsert(m, k, v) == [x \in (DOMAIN m) \cup {k} |-> IF x = k THEN v ELSE m[x]]
EmptyMap == [x \in {} |-> 0]

(***************************************************************************)
(* Element and ElementType (src/src/dsl.rs:30-64, 93-102).  The numbers    *)
(* and bytes held by an Element are kept as a sequence v; only its shape   *)
(* is ever read by the front-end and the compiler.                         *)
(***************************************************************************)
Num == [kind |-> "Num", n |-> 0]
ManyNum(n) == [kind |-> "ManyNum", n |-> n]
StrT == [kind |-> "Str", n |-> 0]
ManyStr(n) == [kind |-> "ManyStr", n |-> n]

NumData == [kind |-> "Num", v |-> <<7>>]
ManyNumData(n) == [kind |-> "ManyNum", v |-> [i \in 1..n |-> i]]

\* Element::match_type
match_type(data, element_type) ==
    CASE data.kind = "Num" /\ element_type.kind = "Num" -> TRUE
      [] data.kind = "ManyNum" /\ element_type.kind = "ManyNum" -> Len(data.v) = element_type.n
      [] data.kind = "Str" /\ element_type.kind = "Str" -> TRUE
      [] data.kind = "ManyStr" /\ element_type.kind = "ManyStr" -> Len(data.v) = element_type.n
      [] OTHER -> FALSE

\* ElementType::len
ElementTypeLen(element_type) ==
    IF element_type.kind \in {"Num", "Str"} THEN 1 ELSE element_type.n

\* Element::len
ElementLen(data) ==
    IF data.kind \in {"Num", "Str"} THEN 1 ELSE Len(data.v)

\* MemoryEntry { data_type, data, description }
MemoryEntry(data_type, data) ==
    [data_type |-> data_type, data |-> data, description |-> None]

(***************************************************************************)
(* TraceEntry (src/src/dsl.rs:87-91; the variants the compiler matches,    *)
(* src/src/compiler.rs:54,140,214,231).                                    *)
(***************************************************************************)
FunctionCall(name, inputs) ==
    [kind |-> "FunctionCall", name |-> name, inputs |-> inputs, idx |-> 0]
FunctionCallWithOptions(name, inputs) ==
    [kind |-> "FunctionCallWithOptions", name |-> name, inputs |-> inputs, idx |-> 0]
AllocatedConstant(idx) ==
    [kind |-> "AllocatedConstant", name |-> "", inputs |-> <<>>, idx |-> idx]
AllocatedHint(idx) ==
    [kind |-> "AllocatedHint", name |-> "", inputs |-> <<>>, idx |-> idx]

(***************************************************************************)
(* The inputs the front-end calls are tried with.                          *)
(***************************************************************************)
TypeNames == {"N", "V"}
\* (name, element type) pairs offered to add_data_type
DataTypeChoices == {<<"N", Num>>, <<"V", ManyNum(2)>>}
\* (name, element type) pairs offered to add_ref_only_data_type
RefOnlyChoices == {<<"V", ManyNum(1)>>}
DataChoices == {NumData, ManyNumData(1), ManyNumData(2)}

\* FunctionMetadata { input, output } and whether the registered generator
\* accepts options (AcceptableFunctionMetadata, src/src/compiler.rs:61-64)
FunctionMetadata(in, out, with_options) ==
    [input |-> in, output |-> out, with_options |-> with_options]
FunctionNames == {"zero", "add", "idv"}

(***************************************************************************)
(* DSL::new (src/src/dsl.rs:127-137)                                       *)
(***************************************************************************)
InitDSL ==
    /\ data_type_registry = EmptyMap
    /\ function_registry = EmptyMap
    /\ memory = EmptyMap
    /\ memory_last_idx = 0
    /\ trace = <<>>
    /\ num_inputs = None
    /\ hint = <<>>
    /\ output = <<>>
    /\ last = [op |-> "new", ok |-> TRUE]
    /\ lock_entries = None
    /\ trace_ret = <<>>

(***************************************************************************)
(* Registration (src/src/dsl.rs:139-161)                                   *)
(***************************************************************************)
add_data_type(name, element_type) ==
    /\ data_type_registry' = MapInsert(data_type_registry, name,
                                 [element_type |-> element_type, ref_only |-> FALSE])
    /\ UNCHANGED <<function_registry, memory, memory_last_idx, trace, num_inputs,
                   hint, output, last, lock_entries, trace_ret>>

add_ref_only_data_type(name, element_type) ==
    /\ data_type_registry' = MapInsert(data_type_registry, name,
                                 [element_type |-> element_type, ref_only |-> TRUE])
    /\ UNCHANGED <<function_registry, memory, memory_last_idx, trace, num_inputs,
                   hint, output, last, lock_entries, trace_ret>>

add_function(name, meta) ==
    /\ function_registry' = MapInsert(function_registry, name, meta)
    /\ UNCHANGED <<data_type_registry, memory, memory_last_idx, trace, num_inputs,
                   hint, output, last, lock_entries, trace_ret>>

(***************************************************************************)
(* DSL::alloc (src/src/dsl.rs:163-189).  The index is taken and            *)
(* memory_last_idx advanced before any check.                              *)
(***************************************************************************)
\* the checks of lines 167-179: Some(error) or None
AllocError(data_type, data, idx) ==
    IF data_type \notin DOMAIN data_type_registry
    THEN Some("The data type has not been registered")
    ELSE IF ~match_type(data, data_type_registry[data_type].element_type)
    THEN Some("The data does not match the type definitions")
    ELSE IF idx \in DOMAIN memory
    THEN Some("Memory is corrupted")
    ELSE None

\* an alloc that hands the same index out again
AllocNextIdxReused(idx) == idx

\* the value memory_last_idx has after a call of alloc (line 165)
AllocNextIdx(idx) == idx + 1

\* memory after a call of alloc with index idx
AllocMemory(data_type, data, idx) ==
    IF IsSome(AllocError(data_type, data, idx))
    THEN memory
    ELSE MapInsert(memory, idx, MemoryEntry(data_type, data))

\* the first lines of alloc_constant and execute (src/src/dsl.rs:192-194, 275-277)
LockNumInputs ==
    IF IsNone(num_inputs) THEN Some(memory_last_idx) ELSE num_inputs

\* history: the number of memory entries at the first alloc_constant / execute
LockEntries ==
    IF IsNone(lock_entries) THEN Some(Cardinality(DOMAIN memory)) ELSE lock_entries

(***************************************************************************)
(* DSL::alloc_constant (src/src/dsl.rs:191-198)                            *)
(***************************************************************************)
alloc_constant(data_type, data) ==
    LET idx == memory_last_idx
        err == AllocError(data_type, data, idx)
    IN  /\ num_inputs' = LockNumInputs
        /\ lock_entries' = LockEntries
        /\ memory_last_idx' = AllocNextIdx(idx)
        /\ memory' = AllocMemory(data_type, data, idx)
        /\ IF IsSome(err)
           THEN /\ UNCHANGED <<trace, trace_ret>>
                /\ last' = [op |-> "alloc_constant", ok |-> FALSE]
           ELSE /\ trace' = Append(trace, AllocatedConstant(idx))
                /\ trace_ret' = Append(trace_ret, <<idx>>)
                /\ last' = [op |-> "alloc_constant", ok |-> TRUE]
        /\ UNCHANGED <<data_type_registry, function_registry, hint, output>>

(***************************************************************************)
(* DSL::alloc_input (src/src/dsl.rs:200-207)                               *)
(***************************************************************************)
\* a front-end whose alloc_input never sees the lock
InputsLockedNever == FALSE

\* the test of line 201
InputsLocked == IsSome(num_inputs)

alloc_input(data_type, data) ==
    IF InputsLocked
    THEN /\ last' = [op |-> "alloc_input", ok |-> FALSE]
         /\ UNCHANGED <<data_type_registry, function_registry, memory, memory_last_idx,
                        trace, num_inputs, hint, output, lock_entries, trace_ret>>
    ELSE LET idx == memory_last_idx
             err == AllocError(data_type, data, idx)
         IN  /\ memory_last_idx' = AllocNextIdx(idx)
             /\ memory' = AllocMemory(data_type, data, idx)
             /\ last' = [op |-> "alloc_input", ok |-> IsNone(err)]
             /\ UNCHANGED <<data_type_registry, function_registry, trace, num_inputs,
                            hint, output, lock_entries, trace_ret>>

(***************************************************************************)
(* DSL::set_name (src/src/dsl.rs:257-268)                                  *)
(***************************************************************************)
set_name(idx, name) ==
    /\ IF idx \notin DOMAIN memory
       THEN /\ last' = [op |-> "set_name", ok |-> FALSE]
            /\ UNCHANGED memory
       ELSE /\ memory' = [memory EXCEPT ![idx].description = Some(name)]
            /\ last' = [op |-> "set_name", ok |-> TRUE]
    /\ UNCHANGED <<data_type_registry, function_registry, memory_last_idx, trace,
                   num_inputs, hint, output, lock_entries, trace_ret>>

(***************************************************************************)
(* DSL::execute (src/src/dsl.rs:270-339).  gen is what the registered      *)
(* trace generator returns: [ok, new_elements, new_hints].                 *)
(***************************************************************************)
\* the loop of lines 298-303: "ok", "mismatch" (the error of line 301) or
\* "panic" (line 299 unwraps memory.get_mut(input_idx) of a missing index)
InputCheck(meta, input_idxs) ==
    LET bad == {i \in 1..Len(input_idxs) :
                   \/ input_idxs[i] \notin DOMAIN memory
                   \/ memory[input_idxs[i]].data_type # meta.input[i]}
    IN  IF bad = {} THEN "ok"
        ELSE LET i == CHOOSE x \in bad : \A y \in bad : x <= y
             IN  IF input_idxs[i] \notin DOMAIN memory THEN "panic" ELSE "mismatch"

ExecutePanicsOnInput(function_name, input_idxs) ==
    /\ function_name \in DOMAIN function_registry
    /\ Len(function_registry[function_name].input) = Len(input_idxs)
    /\ InputCheck(function_registry[function_name], input_idxs) = "panic"

\* the checks of lines 279-310 that come before any change: Some(error) or None
ExecuteError(function_name, input_idxs, gen) ==
    IF function_name \notin DOMAIN function_registry
    THEN Some("The function has not been registered")
    ELSE LET meta == function_registry[function_name] IN
         IF Len(meta.input) # Len(input_idxs)
         THEN Some("The number of inputs does not match")
         ELSE IF InputCheck(meta, input_idxs) # "ok"
         THEN Some("The input data type mismatches")
         ELSE IF ~gen.ok
         THEN Some("trace generator failed")
         ELSE IF Len(gen.new_elements) # Len(meta.output)
         THEN Some("The number of outputs does not match")
         ELSE None

\* the loop of lines 315-330 from position k on: the state it leaves
RECURSIVE InsertOutputs(_, _, _, _, _, _)
InsertOutputs(output_types, entries, k, mem, mli, outs) ==
    IF k > Len(output_types)
    THEN [memory |-> mem, memory_last_idx |-> mli, outputs |-> outs,
          err |-> None, panic |-> FALSE]
    ELSE IF output_types[k] # entries[k].data_type
    THEN [memory |-> mem, memory_last_idx |-> mli, outputs |-> outs,
          err |-> Some("The output data type mismatches"), panic |-> FALSE]
    ELSE IF output_types[k] \notin DOMAIN data_type_registry
    THEN [memory |-> mem, memory_last_idx |-> mli, outputs |-> outs,
          err |-> None, panic |-> TRUE]
    ELSE IF ~match_type(entries[k].data, data_type_registry[output_types[k]].element_type)
    THEN [memory |-> mem, memory_last_idx |-> mli, outputs |-> outs,
          err |-> Some("The output data does not match the type definitions"),
          panic |-> FALSE]
    ELSE InsertOutputs(output_types, entries, k + 1,
                       MapInsert(mem, mli, entries[k]), mli + 1, Append(outs, mli))

\* the body shared by execute and its options variant; entry is the trace entry pushed
ExecuteBody(op, function_name, input_idxs, gen, entry) ==
    LET err == ExecuteError(function_name, input_idxs, gen) IN
    /\ ~ExecutePanicsOnInput(function_name, input_idxs)
    /\ num_inputs' = LockNumInputs
    /\ lock_entries' = LockEntries
    /\ IF IsSome(err)
       THEN /\ last' = [op |-> op, ok |-> FALSE]
            /\ UNCHANGED <<memory, memory_last_idx, trace, hint, trace_ret>>
       ELSE LET meta == function_registry[function_name]
                r == InsertOutputs(meta.output, gen.new_elements, 1,
                                   memory, memory_last_idx, <<>>)
            IN  /\ ~r.panic
                /\ hint' = hint \o gen.new_hints
                /\ memory' = r.memory
                /\ memory_last_idx' = r.memory_last_idx
                /\ IF IsSome(r.err)
                   THEN /\ last' = [op |-> op, ok |-> FALSE]
                        /\ UNCHANGED <<trace, trace_ret>>
                   ELSE /\ trace' = Append(trace, entry)
                        /\ trace_ret' = Append(trace_ret, r.outputs)
                        /\ last' = [op |-> op, ok |-> TRUE]
    /\ UNCHANGED <<data_type_registry, function_registry, output>>

execute(function_name, input_idxs, gen) ==
    ExecuteBody("execute", function_name, input_idxs, gen,
                FunctionCall(function_name, input_idxs))

\* the variant of execute that takes options and records FunctionCallWithOptions
execute_with_options(function_name, input_idxs, gen) ==
    ExecuteBody("execute_with_options", function_name, input_idxs, gen,
                FunctionCallWithOptions(function_name, input_idxs))

\* the front-end's choice of the declared outputs: appends one memory index
set_program_output(idx) ==
    /\ idx \in DOMAIN memory
    /\ output' = Append(output, idx)
    /\ last' = [op |-> "set_program_output", ok |-> TRUE]
    /\ UNCHANGED <<data_type_registry, function_registry, memory, memory_last_idx,
                   trace, num_inputs, hint, lock_entries, trace_ret>>

(***************************************************************************)
(* Sequence helpers.                                                       *)
(***************************************************************************)
Contains(seq, x) == \E k \in 1..Len(seq) : seq[k] = x
Reverse(seq) == [k \in 1..Len(seq) |-> seq[Len(seq) + 1 - k]]
RECURSIVE Repeat(_, _)
Repeat(n, seq) == IF n <= 0 THEN <<>> ELSE seq \o Repeat(n - 1, seq)
RECURSIVE Flatten(_)
Flatten(seqs) == IF seqs = <<>> THEN <<>> ELSE Head(seqs) \o Flatten(Tail(seqs))
RemoveAt(seq, k) == SubSeq(seq, 1, k - 1) \o SubSeq(seq, k + 1, Len(seq))

(***************************************************************************)
(* The stack model (crate::stack::Stack, used by src/src/compiler.rs).     *)
(* A sequence of <<idx, width>> pairs, bottom to top.  The distance of an  *)
(* entry is the distance from the top of its first-pushed slot: the        *)
(* convention under which roll_script's case distance == len - 1           *)
(* (src/src/compiler.rs:324-325) is "already on the top of the stack".     *)
(***************************************************************************)
NewStack == <<>>
StackLive(st, idx) == \E k \in 1..Len(st) : st[k][1] = idx
StackIndexOf(st, idx) == CHOOSE k \in 1..Len(st) : st[k][1] = idx
RECURSIVE SumWidths(_, _)
\* the slots of the entries st[from..]
SumWidths(st, from) ==
    IF from > Len(st) THEN 0 ELSE st[from][2] + SumWidths(st, from + 1)

\* each of the following is defined where the index is live (push: not live);
\* the compiler's `?` returns the error otherwise
push_to_stack(st, idx, width) == Append(st, <<idx, width>>)
get_length(st, idx) == st[StackIndexOf(st, idx)][2]
get_relative_position(st, idx) == SumWidths(st, StackIndexOf(st, idx)) - 1
pull(st, idx) == RemoveAt(st, StackIndexOf(st, idx))
get_num_elements_in_stack(st) == SumWidths(st, 1)

(***************************************************************************)
(* Opcodes.  A script is a sequence of opcodes; a literal push carries the *)
(* value pushed.  Values on the VM stacks are <<"num", n, 0>> (a number)   *)
(* or <<"slot", idx, k>> (the k-th slot of the value of memory index idx). *)
(***************************************************************************)
Op(name) == [op |-> name, arg |-> <<>>]
NumValue(n) == <<"num", n, 0>>
SlotValue(idx, k) == <<"slot", idx, k>>
PushNum(n) == [op |-> "PUSH", arg |-> NumValue(n)]
PushSlot(idx, k) == [op |-> "PUSH", arg |-> SlotValue(idx, k)]
\* the bytes of a function's script generator, taken to meet its contract:
\* they consume `consumed` slots and leave the slots `outs`
GeneratorBytes(consumed, outs) == [op |-> "GEN", arg |-> <<"gen", consumed, outs>>]

(***************************************************************************)
(* roll_script and pick_script (src/src/compiler.rs:323-369)               *)
(***************************************************************************)
\* a selector without the test of line 324
roll_script_without_top_test(distance, len) ==
    IF distance = 1 THEN Repeat(len, <<Op("OP_SWAP")>>)
    ELSE IF distance = 2 THEN Repeat(len, <<Op("OP_ROT")>>)
    ELSE Repeat(len, <<PushNum(distance), Op("OP_ROLL")>>)

roll_script(distance, len) ==
    IF distance = len - 1
    THEN <<>>
    ELSE IF distance = 1
    THEN Repeat(len, <<Op("OP_SWAP")>>)
    ELSE IF distance = 2
    THEN Repeat(len, <<Op("OP_ROT")>>)
    ELSE Repeat(len, <<PushNum(distance), Op("OP_ROLL")>>)

\* a selector that takes distance for the distance of the block's top slot
pick_script_from_top_slot(distance, len) ==
    Repeat(len, <<PushNum(distance + len - 1), Op("OP_PICK")>>)

pick_script(distance, len) ==
    IF distance = 0
    THEN Repeat(len, <<Op("OP_DUP")>>)
    ELSE IF distance = 1
    THEN Repeat(len, <<Op("OP_OVER")>>)
    ELSE Repeat(len, <<PushNum(distance), Op("OP_PICK")>>)

(***************************************************************************)
(* The target VM: the main stack and the auxiliary stack, bottom to top.   *)
(***************************************************************************)
\* the item at distance d from the top of st
ItemAt(st, d) == st[Len(st) - d]
Pop(st, n) == SubSeq(st, 1, Len(st) - n)
Failed(m0) == [main |-> m0.main, alt |-> m0.alt, ok |-> FALSE]

RunOp(m0, o) ==
    LET m == m0.main
        a == m0.alt
        depth == Len(m0.main)
    IN
    IF ~m0.ok THEN m0
    ELSE CASE o.op = "PUSH" -> [m0 EXCEPT !.main = Append(m, o.arg)]
      [] o.op = "OP_DUP" ->
            IF depth < 1 THEN Failed(m0)
            ELSE [m0 EXCEPT !.main = Append(m, ItemAt(m, 0))]
      [] o.op = "OP_OVER" ->
            IF depth < 2 THEN Failed(m0)
            ELSE [m0 EXCEPT !.main = Append(m, ItemAt(m, 1))]
      [] o.op = "OP_SWAP" ->
            IF depth < 2 THEN Failed(m0)
            ELSE [m0 EXCEPT !.main = Append(RemoveAt(m, depth - 1), ItemAt(m, 1))]
      [] o.op = "OP_ROT" ->
            IF depth < 3 THEN Failed(m0)
            ELSE [m0 EXCEPT !.main = Append(RemoveAt(m, depth - 2), ItemAt(m, 2))]
      [] o.op = "OP_PICK" ->
            IF depth < 1 \/ ItemAt(m, 0)[1] # "num" THEN Failed(m0)
            ELSE LET n == ItemAt(m, 0)[2]
                     rest == Pop(m, 1)
                 IN  IF n < 0 \/ n >= Len(rest) THEN Failed(m0)
                     ELSE [m0 EXCEPT !.main = Append(rest, ItemAt(rest, n))]
      [] o.op = "OP_ROLL" ->
            IF depth < 1 \/ ItemAt(m, 0)[1] # "num" THEN Failed(m0)
            ELSE LET n == ItemAt(m, 0)[2]
                     rest == Pop(m, 1)
                 IN  IF n < 0 \/ n >= Len(rest) THEN Failed(m0)
                     ELSE [m0 EXCEPT !.main =
                              Append(RemoveAt(rest, Len(rest) - n), ItemAt(rest, n))]
      [] o.op = "OP_DROP" ->
            IF depth < 1 THEN Failed(m0) ELSE [m0 EXCEPT !.main = Pop(m, 1)]
      [] o.op = "OP_2DROP" ->
            IF depth < 2 THEN Failed(m0) ELSE [m0 EXCEPT !.main = Pop(m, 2)]
      [] o.op = "OP_DEPTH" -> [m0 EXCEPT !.main = Append(m, NumValue(depth))]
      [] o.op = "OP_1SUB" ->
            IF depth < 1 \/ ItemAt(m, 0)[1] # "num" THEN Failed(m0)
            ELSE [m0 EXCEPT !.main = Append(Pop(m, 1), NumValue(ItemAt(m, 0)[2] - 1))]
      [] o.op = "OP_TOALTSTACK" ->
            IF depth < 1 THEN Failed(m0)
            ELSE [m0 EXCEPT !.main = Pop(m, 1), !.alt = Append(a, ItemAt(m, 0))]
      [] o.op = "OP_FROMALTSTACK" ->
            IF Len(a) < 1 THEN Failed(m0)
            ELSE [m0 EXCEPT !.main = Append(m, ItemAt(a, 0)), !.alt = Pop(a, 1)]
      [] o.op = "GEN" ->
            IF depth < o.arg[2] THEN Failed(m0)
            ELSE [m0 EXCEPT !.main = Pop(m, o.arg[2]) \o o.arg[3]]
      [] OTHER -> Failed(m0)

RECURSIVE RunOps(_, _)
RunOps(m0, ops) ==
    IF ops = <<>> THEN m0 ELSE RunOps(RunOp(m0, Head(ops)), Tail(ops))

(***************************************************************************)
(* Compiler::compiler, step 1 (src/src/compiler.rs:15-30): last_visit.     *)
(***************************************************************************)
\* the match of line 22: the trace entries the analysis takes for calls
AnalysisCountsCall(entry) == entry.kind = "FunctionCall"

\* the loop of lines 20-30 over tr[k..], at call time `time`
RECURSIVE LastVisit(_, _, _, _)
LastVisit(tr, k, time, lv) ==
    IF k > Len(tr) THEN lv
    ELSE IF AnalysisCountsCall(tr[k])
    THEN LastVisit(tr, k + 1, time + 1,
                   [i \in DOMAIN lv |-> IF Contains(tr[k].inputs, i) THEN time ELSE lv[i]])
    ELSE LastVisit(tr, k + 1, time, lv)

(***************************************************************************)
(* Steps 2 and 3 (src/src/compiler.rs:32-50): the inputs, the stack model. *)
(***************************************************************************)
\* line 36 unwraps memory.get(&i) for every i below num_inputs
InputsPanic ==
    IsSome(num_inputs) /\ \E i \in 0..(num_inputs[1] - 1) : i \notin DOMAIN memory

CompiledInput ==
    IF IsSome(num_inputs) THEN [k \in 1..num_inputs[1] |-> memory[k - 1]] ELSE <<>>

\* the stack model after the pushes of lines 42-44
RECURSIVE InitialStack(_, _)
InitialStack(in, k) ==
    IF k = 0 THEN NewStack
    ELSE push_to_stack(InitialStack(in, k - 1), k - 1, ElementLen(in[k].data))

\* the script buffer kept from the compilation before
InitialScriptKept == script

\* line 47
InitialScript == <<>>

\* line 50
InitialAllocatedIdx == IF IsSome(num_inputs) THEN num_inputs[1] ELSE 0

\* the slots of the value of memory index idx, first slot first
Slots(idx) == [k \in 1..ElementLen(memory[idx].data) |-> SlotValue(idx, k)]

\* the entries made by alloc_input: those below num_inputs once it is set
AllocatedInputs ==
    IF IsSome(num_inputs) THEN {i \in DOMAIN memory : i < num_inputs[1]} ELSE DOMAIN memory

\* the VM's entry stack: the inputs in allocation order, the last input on top
RECURSIVE EntryStack(_)
EntryStack(k) ==
    IF k = 0 THEN <<>>
    ELSE EntryStack(k - 1) \o (IF (k - 1) \in AllocatedInputs THEN Slots(k - 1) ELSE <<>>)

\* the slots of the hints the trace entries tr[from..] allocate, in trace
\* order: what lies at the bottom of the VM's stack before they are replayed
RECURSIVE HintSlots(_, _)
HintSlots(tr, from) ==
    IF from > Len(tr) THEN <<>>
    ELSE (IF tr[from].kind = "AllocatedHint" THEN Slots(tr[from].idx) ELSE <<>>)
         \o HintSlots(tr, from + 1)

AfterDrain(pos) == IF pos > Len(output) THEN "cleanup" ELSE "drain"
AfterReplay(pos) == IF pos > Len(trace) THEN AfterDrain(1) ELSE "replay"

CompileStart ==
    /\ pc = "build"
    /\ IF InputsPanic
       THEN /\ pc' = "panic"
            /\ UNCHANGED <<last_visit, input, stack, script, cur_time, allocated_idx,
                           trace_pos, drain_pos, output_total_len, call_log, vm>>
       ELSE /\ last_visit' = LastVisit(trace, 1, 0, [i \in 0..(memory_last_idx - 1) |-> -1])
            /\ input' = CompiledInput
            /\ stack' = InitialStack(CompiledInput, Len(CompiledInput))
            /\ script' = InitialScript
            /\ cur_time' = 0
            /\ allocated_idx' = InitialAllocatedIdx
            /\ trace_pos' = 1
            /\ drain_pos' = 1
            /\ output_total_len' = 0
            /\ call_log' = [kind |-> "start", time |-> 0, inputs |-> <<>>, args |-> <<>>,
                            ref_positions |-> <<>>, before |-> NewStack, allocated |-> 0]
            /\ vm' = [main |-> HintSlots(trace, 1) \o EntryStack(memory_last_idx),
                      alt |-> <<>>, ok |-> TRUE]
            /\ pc' = AfterReplay(1)
    /\ UNCHANGED <<fe_vars, sel, compiled>>

(***************************************************************************)
(* Trace replay (src/src/compiler.rs:52-252).                              *)
(***************************************************************************)
\* input_type.starts_with("&"), lines 81 and 167
RefMarked(input_type) == input_type \in {"&N", "&V"}

\* inputs[i..] of lines 90 and 176; i is the 1-based position of the argument
RestOfInputs(inputs, i) == SubSeq(inputs, i, Len(inputs))

\* the test of lines 89-91 and 175-177
ShouldRoll(inputs, i, input_idx, time) ==
    /\ last_visit[input_idx] = time
    /\ ~Contains(RestOfInputs(inputs, i), input_idx)
    /\ ~Contains(output, input_idx)

\* the loop of lines 68-103 (and 154-189) from position i on
RECURSIVE MaterializeInputs(_, _, _, _, _)
MaterializeInputs(inputs, formal, i, time, st) ==
    IF st.err \/ i > Len(inputs) \/ i > Len(formal) THEN st
    ELSE LET input_idx == inputs[i]
             input_metadata == data_type_registry[memory[input_idx].data_type]
             len == ElementTypeLen(input_metadata.element_type)
         IN
         IF RefMarked(formal[i])
         THEN MaterializeInputs(inputs, formal, i + 1, time,
                  [st EXCEPT !.deferred_ref = Append(@, input_idx)])
         ELSE IF ~StackLive(st.stack, input_idx)
         THEN [st EXCEPT !.err = TRUE]
         ELSE LET pos == get_relative_position(st.stack, input_idx)
                  distance == pos + st.num_cloned_input_elements
              IN
              IF ShouldRoll(inputs, i, input_idx, time)
              THEN MaterializeInputs(inputs, formal, i + 1, time,
                      [st EXCEPT !.stack = pull(@, input_idx),
                                 !.bytes = @ \o roll_script(distance, len),
                                 !.num_cloned_input_elements = @ + len,
                                 !.log = Append(@, [i |-> i, idx |-> input_idx,
                                                    moved |-> TRUE])])
              ELSE MaterializeInputs(inputs, formal, i + 1, time,
                      [st EXCEPT !.bytes = @ \o pick_script(distance, len),
                                 !.num_cloned_input_elements = @ + len,
                                 !.log = Append(@, [i |-> i, idx |-> input_idx,
                                                    moved |-> FALSE])])

\* the positions of the topmost slots of the reference arguments
RefPositionsOfTopSlots(st, deferred_ref) ==
    [k \in 1..Len(deferred_ref) |->
        get_relative_position(st, deferred_ref[k]) - (get_length(st, deferred_ref[k]) - 1)]

\* lines 107-110 (and 193-196)
RefPositions(st, deferred_ref) ==
    [k \in 1..Len(deferred_ref) |-> get_relative_position(st, deferred_ref[k])]

\* the loop with allocated_idx advanced before the push
RECURSIVE PushOutputsIncrementFirst(_, _, _)
PushOutputsIncrementFirst(output_types, k, st) ==
    IF st.err \/ st.panic \/ k > Len(output_types) THEN st
    ELSE IF output_types[k] \notin DOMAIN data_type_registry
    THEN [st EXCEPT !.panic = TRUE]
    ELSE PushOutputsIncrementFirst(output_types, k + 1,
            [st EXCEPT !.stack = push_to_stack(@, st.allocated_idx + 1,
                                    ElementTypeLen(data_type_registry[output_types[k]].element_type)),
                       !.allocated_idx = @ + 1])

\* the loop of lines 127-136 (and 201-210) from output k on
RECURSIVE PushOutputs(_, _, _)
PushOutputs(output_types, k, st) ==
    IF st.err \/ st.panic \/ k > Len(output_types) THEN st
    ELSE IF output_types[k] \notin DOMAIN data_type_registry
    THEN [st EXCEPT !.panic = TRUE]
    ELSE IF StackLive(st.stack, st.allocated_idx)
    THEN [st EXCEPT !.err = TRUE]
    ELSE PushOutputs(output_types, k + 1,
            [st EXCEPT !.stack = push_to_stack(@, st.allocated_idx,
                                    ElementTypeLen(data_type_registry[output_types[k]].element_type)),
                       !.allocated_idx = @ + 1])

\* the values a call leaves at run time: those the front-end returned for it
OutputSlots(pos) == Flatten([k \in 1..Len(trace_ret[pos]) |-> Slots(trace_ret[pos][k])])

\* the dispatch of lines 147-150 with the error arm never taken
NoOptionsOfferedNever(entry, meta) == FALSE

\* lines 147-150: the entry carries options, the registered function takes none
NoOptionsOffered(entry, meta) ==
    entry.kind = "FunctionCallWithOptions" /\ ~meta.with_options

\* lines 114 and 117 (and 198): the registered script generator returns an error
ScriptGeneratorFails(name) == name = "bad"

\* one FunctionCall or FunctionCallWithOptions entry: what it leaves
\* [stack, bytes, allocated_idx, log, ref_positions, err, panic]
ReplayCall(entry, pos) ==
    LET meta == function_registry[entry.name]
        m == MaterializeInputs(entry.inputs, meta.input, 1, cur_time,
                 [stack |-> stack, bytes |-> <<>>, num_cloned_input_elements |-> 0,
                  deferred_ref |-> <<>>, log |-> <<>>, err |-> FALSE])
        failed == [stack |-> stack, bytes |-> <<>>, allocated_idx |-> allocated_idx,
                   log |-> <<>>, ref_positions |-> <<>>, err |-> TRUE, panic |-> FALSE]
    IN
    IF entry.name \notin DOMAIN function_registry
    THEN [failed EXCEPT !.err = FALSE, !.panic = TRUE]
    ELSE IF NoOptionsOffered(entry, meta)
    THEN failed
    ELSE IF m.err \/ \E k \in 1..Len(m.deferred_ref) : ~StackLive(m.stack, m.deferred_ref[k])
    THEN failed
    ELSE IF ScriptGeneratorFails(entry.name)
    THEN failed
    ELSE LET o == PushOutputs(meta.output, 1,
                      [stack |-> m.stack, allocated_idx |-> allocated_idx,
                       err |-> FALSE, panic |-> FALSE])
         IN  [stack |-> o.stack,
              bytes |-> Append(m.bytes,
                               GeneratorBytes(m.num_cloned_input_elements, OutputSlots(pos))),
              allocated_idx |-> o.allocated_idx,
              log |-> m.log,
              ref_positions |-> RefPositions(m.stack, m.deferred_ref),
              err |-> o.err, panic |-> o.panic]

\* the literal pushes of lines 224-229: one push per slot of the data
ConstantBytes(idx) == [k \in 1..ElementLen(memory[idx].data) |-> PushSlot(idx, k)]

\* a lift that leaves out OP_1SUB
HintBytesWithoutDecrement(len) == Repeat(len, <<Op("OP_DEPTH"), Op("OP_ROLL")>>)

\* lines 242-249
HintBytes(len) == Repeat(len, <<Op("OP_DEPTH"), Op("OP_1SUB"), Op("OP_ROLL")>>)

\* lines 214-230 and 231-250
ReplayAllocation(entry) ==
    LET len == ElementTypeLen(data_type_registry[memory[entry.idx].data_type].element_type)
    IN  [stack |-> IF StackLive(stack, entry.idx) THEN stack
                   ELSE push_to_stack(stack, entry.idx, len),
         bytes |-> IF entry.kind = "AllocatedConstant"
                   THEN ConstantBytes(entry.idx)
                   ELSE HintBytes(len),
         allocated_idx |-> allocated_idx + 1,
         log |-> <<>>,
         ref_positions |-> <<>>,
         err |-> StackLive(stack, entry.idx),
         panic |-> FALSE]

IsCall(entry) == entry.kind \in {"FunctionCall", "FunctionCallWithOptions"}

ReplayEntry ==
    /\ pc = "replay"
    /\ LET entry == trace[trace_pos]
           r == IF IsCall(entry) THEN ReplayCall(entry, trace_pos)
                ELSE ReplayAllocation(entry)
       IN  IF r.panic \/ r.err
           THEN /\ pc' = IF r.panic THEN "panic" ELSE "error"
                /\ UNCHANGED <<stack, script, cur_time, allocated_idx, trace_pos,
                               call_log, vm>>
           ELSE /\ stack' = r.stack
                /\ script' = script \o r.bytes
                /\ vm' = RunOps(vm, r.bytes)
                /\ allocated_idx' = r.allocated_idx
                /\ cur_time' = IF IsCall(entry) THEN cur_time + 1 ELSE cur_time
                /\ trace_pos' = trace_pos + 1
                /\ call_log' = [kind |-> entry.kind, time |-> cur_time,
                                inputs |-> entry.inputs, args |-> r.log,
                                ref_positions |-> r.ref_positions,
                                before |-> stack, allocated |-> allocated_idx]
                /\ pc' = AfterReplay(trace_pos + 1)
    /\ UNCHANGED <<fe_vars, sel, last_visit, input, drain_pos, output_total_len, compiled>>

(***************************************************************************)
(* Step 4 (src/src/compiler.rs:254-313): drainage, cleanup, recovery.      *)
(***************************************************************************)
output_list_rev == Reverse(output)

\* the test of line 270; i is the 1-based position in output_list_rev
DrainPicks(i, idx) == Contains(SubSeq(output_list_rev, i, Len(output_list_rev)), idx)

\* the copies of lines 274-276 (pick) and 288-290 (roll)
DrainCopy(picks, pos, len) ==
    Repeat(len, <<PushNum(pos), Op(IF picks THEN "OP_PICK" ELSE "OP_ROLL")>>)

\* one iteration of the loop of lines 260-299
DrainOutput ==
    /\ pc = "drain"
    /\ LET i == drain_pos
           idx == output_list_rev[i]
       IN  IF ~StackLive(stack, idx)
           THEN /\ pc' = "error"
                /\ UNCHANGED <<stack, script, drain_pos, output_total_len, call_log, vm>>
           ELSE LET pos == get_relative_position(stack, idx)
                    len == get_length(stack, idx)
                    picks == DrainPicks(i, idx)
                    bytes == DrainCopy(picks, pos, len)
                             \o Repeat(len, <<Op("OP_TOALTSTACK")>>)
                IN  /\ stack' = IF picks THEN stack ELSE pull(stack, idx)
                    /\ script' = script \o bytes
                    /\ vm' = RunOps(vm, bytes)
                    /\ output_total_len' = output_total_len + len
                    /\ drain_pos' = i + 1
                    /\ call_log' = [kind |-> "drain", time |-> cur_time, inputs |-> <<>>,
                                    args |-> <<[i |-> i, idx |-> idx, moved |-> ~picks]>>,
                                    ref_positions |-> <<>>, before |-> stack,
                                    allocated |-> allocated_idx]
                    /\ pc' = AfterDrain(i + 1)
    /\ UNCHANGED <<fe_vars, sel, last_visit, input, cur_time, allocated_idx, trace_pos,
                   compiled>>

\* lines 301-308
CleanupBytes(elements_in_stack) ==
    Repeat(elements_in_stack \div 2, <<Op("OP_2DROP")>>)
    \o (IF elements_in_stack % 2 = 1 THEN <<Op("OP_DROP")>> ELSE <<>>)

Cleanup ==
    /\ pc = "cleanup"
    /\ LET bytes == CleanupBytes(get_num_elements_in_stack(stack))
       IN  /\ script' = script \o bytes
           /\ vm' = RunOps(vm, bytes)
    /\ call_log' = [kind |-> "cleanup", time |-> cur_time, inputs |-> <<>>, args |-> <<>>,
                    ref_positions |-> <<>>, before |-> stack, allocated |-> allocated_idx]
    /\ pc' = "recover"
    /\ UNCHANGED <<fe_vars, sel, last_visit, input, stack, cur_time, allocated_idx,
                   trace_pos, drain_pos, output_total_len, compiled>>

\* lines 315-319
CompiledProgram(in, bytes, hints) == [input |-> in, script |-> bytes, hint |-> hints]

\* lines 310-319
Recover ==
    /\ pc = "recover"
    /\ LET bytes == Repeat(output_total_len, <<Op("OP_FROMALTSTACK")>>)
       IN  /\ script' = script \o bytes
           /\ vm' = RunOps(vm, bytes)
           /\ compiled' = Append(compiled, CompiledProgram(input, script \o bytes, hint))
    /\ call_log' = [kind |-> "recover", time |-> cur_time, inputs |-> <<>>, args |-> <<>>,
                    ref_positions |-> <<>>, before |-> stack, allocated |-> allocated_idx]
    /\ pc' = "done"
    /\ UNCHANGED <<fe_vars, sel, last_visit, input, stack, cur_time, allocated_idx,
                   trace_pos, drain_pos, output_total_len>>

\* the compiler's locals before Compiler::compiler is called
InitCompiler ==
    /\ pc = "build"
    /\ last_visit = <<>>
    /\ input = <<>>
    /\ stack = NewStack
    /\ script = <<>>
    /\ cur_time = 0
    /\ allocated_idx = 0
    /\ trace_pos = 1
    /\ drain_pos = 1
    /\ output_total_len = 0
    /\ call_log = [kind |-> "none", time |-> 0, inputs |-> <<>>, args |-> <<>>,
                      ref_positions |-> <<>>, before |-> NewStack, allocated |-> 0]
    /\ vm = [main |-> <<>>, alt |-> <<>>, ok |-> TRUE]
    /\ compiled = <<>>

(***************************************************************************)
(* The front-end on its own.                                               *)
(***************************************************************************)
EntryChoices ==
    {MemoryEntry("N", NumData), MemoryEntry("V", ManyNumData(1)), MemoryEntry("V", ManyNumData(2))}
GenChoices ==
    {[ok |-> FALSE, new_elements |-> <<>>, new_hints |-> <<>>]} \cup
    {[ok |-> TRUE, new_elements |-> es, new_hints |-> hs] :
        es \in {<<>>} \cup {<<e>> : e \in EntryChoices},
        hs \in {<<>>, <<MemoryEntry("N", NumData)>>}}
InputIdxChoices(n) ==
    {<<>>} \cup {<<i>> : i \in 0..(n - 1)}
           \cup {<<i, j>> : i \in 0..(n - 1), j \in 0..(n - 1)}
FEFunctionChoices ==
    { <<"add", FunctionMetadata(<<"N", "N">>, <<"N">>, FALSE)>>,
      <<"idv", FunctionMetadata(<<"V">>, <<"V">>, FALSE)>> }
FEFunctionNames == {"add", "idv"}

\* a front-end call, made while the DSL is being built
Building == pc = "build" /\ UNCHANGED <<c_vars, sel>>

AddDataType ==
    \E c \in DataTypeChoices : Building /\ add_data_type(c[1], c[2])
AddRefOnlyDataType ==
    \E c \in RefOnlyChoices : Building /\ add_ref_only_data_type(c[1], c[2])
AddFunction ==
    \E c \in FEFunctionChoices : Building /\ add_function(c[1], c[2])
AllocInput ==
    \E t \in TypeNames, d \in DataChoices :
        /\ Building
        /\ InputsLocked \/ memory_last_idx < MaxMem
        /\ alloc_input(t, d)
AllocConstant ==
    \E t \in TypeNames, d \in DataChoices :
        /\ Building
        /\ memory_last_idx < MaxMem
        /\ Len(trace) < MaxTrace
        /\ alloc_constant(t, d)
Execute ==
    \E f \in FEFunctionNames, is \in InputIdxChoices(MaxMem), g \in GenChoices :
        /\ Building
        /\ Len(trace) < MaxTrace
        /\ memory_last_idx + Len(g.new_elements) <= MaxMem
        /\ Len(hint) + Len(g.new_hints) <= MaxHint
        /\ execute(f, is, g)
SetName ==
    \E i \in {0, MaxMem} : Building /\ set_name(i, "x")

\* no selector call made
NoSel == [kind |-> "none", distance |-> 0, len |-> 0, bytes |-> <<>>]

Init == InitDSL /\ InitCompiler /\ sel = NoSel

Next ==
    \/ AddDataType
    \/ AddRefOnlyDataType
    \/ AddFunction
    \/ AllocInput
    \/ AllocConstant
    \/ Execute
    \/ SetName

Spec == Init /\ [][Next]_vars

(***************************************************************************)
(* The front-end followed by a compilation of the DSL it built.  The       *)
(* registries are those left by the registration calls made before the     *)
(* first allocation.                                                       *)
(***************************************************************************)
RegisteredTypes ==
    MapInsert(MapInsert(EmptyMap, "N", [element_type |-> Num, ref_only |-> FALSE]),
              "V", [element_type |-> ManyNum(2), ref_only |-> FALSE])
RegisteredFunctions(add_with_options) ==
    MapInsert(MapInsert(MapInsert(EmptyMap,
        "zero", FunctionMetadata(<<>>, <<"N">>, FALSE)),
        "add", FunctionMetadata(<<"N", "N">>, <<"N">>, add_with_options)),
        "idv", FunctionMetadata(<<"V">>, <<"V">>, TRUE))
CGenChoices ==
    {[ok |-> FALSE, new_elements |-> <<>>, new_hints |-> <<>>]} \cup
    {[ok |-> TRUE, new_elements |-> es, new_hints |-> <<>>] :
        es \in {<<>>} \cup {<<e>> : e \in EntryChoices}}

InitRegistered ==
    /\ data_type_registry = RegisteredTypes
    /\ function_registry \in {RegisteredFunctions(FALSE), RegisteredFunctions(TRUE)}
    /\ memory = EmptyMap
    /\ memory_last_idx = 0
    /\ trace = <<>>
    /\ num_inputs = None
    /\ hint = <<>>
    /\ output = <<>>
    /\ last = [op |-> "new", ok |-> TRUE]
    /\ lock_entries = None
    /\ trace_ret = <<>>

CAllocInput ==
    \E t \in TypeNames, d \in DataChoices :
        /\ Building
        /\ InputsLocked \/ memory_last_idx < MaxMemC
        /\ alloc_input(t, d)
CAllocConstant ==
    \E t \in TypeNames, d \in DataChoices :
        /\ Building
        /\ memory_last_idx < MaxMemC
        /\ Len(trace) < MaxTraceC
        /\ alloc_constant(t, d)
CExecute ==
    \E f \in FunctionNames, is \in InputIdxChoices(MaxMemC), g \in CGenChoices :
        /\ Building
        /\ Len(trace) < MaxTraceC
        /\ memory_last_idx + Len(g.new_elements) <= MaxMemC
        /\ execute(f, is, g)
CExecuteWithOptions ==
    \E f \in FunctionNames, is \in InputIdxChoices(MaxMemC), g \in CGenChoices :
        /\ Building
        /\ Len(trace) < MaxTraceC
        /\ memory_last_idx + Len(g.new_elements) <= MaxMemC
        /\ execute_with_options(f, is, g)
SetProgramOutput ==
    \E i \in 0..(MaxMemC - 1) :
        /\ Building
        /\ Len(output) < MaxOutput
        /\ set_program_output(i)

InitCompile == InitRegistered /\ InitCompiler /\ sel = NoSel

NextCompile ==
    \/ CAllocInput
    \/ CAllocConstant
    \/ CExecute
    \/ CExecuteWithOptions
    \/ SetProgramOutput
    \/ CompileStart
    \/ ReplayEntry
    \/ DrainOutput
    \/ Cleanup
    \/ Recover

SpecCompile == InitCompile /\ [][NextCompile]_vars

(***************************************************************************)
(* The selector on its own (src/src/compiler.rs:323-369): one call of      *)
(* roll_script or pick_script, its arguments and the bytes it returned     *)
(* kept in sel.                                                            *)
(***************************************************************************)
SelRoll ==
    \E distance \in 0..MaxDistance, len \in 1..MaxWidth :
        /\ sel' = [kind |-> "roll", distance |-> distance, len |-> len,
                   bytes |-> roll_script(distance, len)]
        /\ UNCHANGED <<fe_vars, c_vars>>
SelPick ==
    \E distance \in 0..MaxDistance, len \in 1..MaxWidth :
        /\ sel' = [kind |-> "pick", distance |-> distance, len |-> len,
                   bytes |-> pick_script(distance, len)]
        /\ UNCHANGED <<fe_vars, c_vars>>

NextSel ==
    \/ SelRoll
    \/ SelPick

SpecSel == Init /\ [][NextSel]_vars

(***************************************************************************)
(* Claims about the front-end (specification Spec).                        *)
(***************************************************************************)

\* C7: once alloc_constant or execute has been called (lock_entries records
\* that first call), every alloc_input call returns an error and leaves
\* memory and memory_last_idx as they were; before any such call, an
\* alloc_input of a registered type with matching data returns Ok, stores
\* the entry at the index it took and leaves num_inputs unset.
C7_AllocInputLocking ==
    [][\A t \in TypeNames, d \in DataChoices :
          alloc_input(t, d) =>
              IF IsSome(lock_entries)
              THEN /\ last' = [op |-> "alloc_input", ok |-> FALSE]
                   /\ memory' = memory
                   /\ memory_last_idx' = memory_last_idx
              ELSE (/\ t \in DOMAIN data_type_registry
                    /\ match_type(d, data_type_registry[t].element_type))
                   => /\ last' = [op |-> "alloc_input", ok |-> TRUE]
                      /\ memory_last_idx \in DOMAIN memory'
                      /\ memory'[memory_last_idx] = MemoryEntry(t, d)
                      /\ IsNone(num_inputs')]_vars

\* an alloc_input was refused after an execute had been recorded and inputs stored
C7_Witness ==
    /\ last = [op |-> "alloc_input", ok |-> FALSE]
    /\ IsSome(lock_entries)
    /\ lock_entries[1] >= 1
    /\ \E k \in 1..Len(trace) : trace[k].kind = "FunctionCall"

\* C8: the keys of memory are exactly 0 .. memory_last_idx - 1, whatever
\* calls were made and whether or not they returned an error.
C8_DenseMemory == DOMAIN memory = 0..(memory_last_idx - 1)

\* C9: where num_inputs is set it is the number of memory entries that
\* existed at the first alloc_constant or execute, and a set num_inputs
\* never changes.
C9_NumInputs ==
    /\ [](IsSome(num_inputs) => num_inputs = lock_entries)
    /\ [][IsSome(num_inputs) => num_inputs' = num_inputs]_vars

\* C10: every memory entry's data matches the element type now registered
\* under the entry's data_type name.
C10_DataMatchesType ==
    \A i \in DOMAIN memory :
        /\ memory[i].data_type \in DOMAIN data_type_registry
        /\ match_type(memory[i].data, data_type_registry[memory[i].data_type].element_type)

(***************************************************************************)
(* Claims about the compiler (specification SpecCompile).                  *)
(***************************************************************************)
\* the slots of the declared outputs, in declared order
DeclaredOutputSlots == Flatten([k \in 1..Len(output) |-> Slots(output[k])])

\* C1: run on an entry stack that holds the inputs in allocation order, the
\* compiled script leaves, after the cleanup drops, an empty main stack and
\* the declared outputs (repetitions included) on the auxiliary stack, and,
\* after the final FROMALTSTACKs, exactly the slots of the declared outputs
\* on the main stack, in declared order, the last declared output on top.
C1_FinalStack ==
    /\ pc = "recover" =>
           /\ vm.ok
           /\ vm.main = <<>>
           /\ vm.alt = Reverse(DeclaredOutputSlots)
    /\ pc = "done" =>
           /\ vm.ok
           /\ vm.main = DeclaredOutputSlots
           /\ vm.alt = <<>>

\* inputs[i+1..] of a call; i is the 1-based position of the argument
LaterInputs(inputs, i) == SubSeq(inputs, i + 1, Len(inputs))

\* C2: in the replay of a call at call time t the argument at position i
\* with index idx is moved (rolled and pulled, so no longer live after the
\* call) exactly when last_visit[idx] = t, idx is not in inputs[i+1..] and
\* idx is not a declared output; otherwise it is copied and stays live.
C2_MaterializeRule ==
    (call_log.kind \in {"FunctionCall", "FunctionCallWithOptions"}) =>
        \A k \in 1..Len(call_log.args) :
            LET a == call_log.args[k]
                dies == /\ last_visit[a.idx] = call_log.time
                        /\ ~Contains(LaterInputs(call_log.inputs, a.i), a.idx)
                        /\ ~Contains(output, a.idx)
            IN  /\ a.moved <=> dies
                /\ dies => ~StackLive(stack, a.idx)

\* C3: in the drainage the output at position i of the reversed list is
\* picked exactly when its index appears again in outputs_rev[i+1..];
\* otherwise it is rolled and pulled from the stack model, so that no
\* declared output is live in the stack model when the cleanup counts the
\* slots to drop.
C3_DrainRule ==
    /\ (call_log.kind = "drain") =>
           \A k \in 1..Len(call_log.args) :
               LET a == call_log.args[k]
                   again == Contains(LaterInputs(output_list_rev, a.i), a.idx)
               IN  /\ a.moved <=> ~again
                   /\ ~again => ~StackLive(stack, a.idx)
    /\ (pc = "cleanup") => \A k \in 1..Len(output) : ~StackLive(stack, output[k])

\* the analysis as the claim has it: every call entry, with or without
\* options, takes one call time
RECURSIVE ClaimedLastVisit(_, _, _, _)
ClaimedLastVisit(tr, k, time, lv) ==
    IF k > Len(tr) THEN lv
    ELSE IF IsCall(tr[k])
    THEN ClaimedLastVisit(tr, k + 1, time + 1,
             [i \in DOMAIN lv |-> IF Contains(tr[k].inputs, i) THEN time ELSE lv[i]])
    ELSE ClaimedLastVisit(tr, k + 1, time, lv)

\* the call entries among the first n trace entries
CallsBefore(n) == Cardinality({k \in 1..n : IsCall(trace[k])})

\* C5: last_visit[idx] is the call time of the last call entry, with or
\* without options, that lists idx as an input (-1 if none), call times
\* counting every call entry from 0; so the analysis gives a trace entry
\* the call time cur_time has when the replay processes it.
C5_CallTime ==
    (pc \in {"replay", "drain", "cleanup", "recover", "done"}) =>
        /\ last_visit = ClaimedLastVisit(trace, 1, 0, [i \in 0..(memory_last_idx - 1) |-> -1])
        /\ cur_time = CallsBefore(trace_pos - 1)

(***************************************************************************)
(* Claims about the selector (specification SpecSel).                      *)
(***************************************************************************)
\* w pairs of (immediate distance, opcode)
Pairs(distance, w, opcode) == Repeat(w, <<PushNum(distance), Op(opcode)>>)

\* what the claim has for pick, which is what the code returns
PickAsClaimed ==
    (sel.kind = "pick") =>
        /\ sel.distance = 0 => sel.bytes = Repeat(sel.len, <<Op("OP_DUP")>>)
        /\ sel.distance = 1 => sel.bytes = Repeat(sel.len, <<Op("OP_OVER")>>)
        /\ sel.distance \notin {0, 1} => sel.bytes = Pairs(sel.distance, sel.len, "OP_PICK")

\* C4 as stated: for every width w, roll(w-1, w) emits nothing, roll(1, w)
\* emits w SWAPs, roll(2, w) emits w ROTs, pick(0, w) emits w DUPs,
\* pick(1, w) emits w OVERs, and for every other distance roll and pick
\* emit w pairs of (distance, ROLL or PICK).
C4_SelectorAsStated ==
    /\ PickAsClaimed
    /\ (sel.kind = "roll") =>
           /\ sel.distance = sel.len - 1 => sel.bytes = <<>>
           /\ sel.distance = 1 => sel.bytes = Repeat(sel.len, <<Op("OP_SWAP")>>)
           /\ sel.distance = 2 => sel.bytes = Repeat(sel.len, <<Op("OP_ROT")>>)
           /\ sel.distance \notin {sel.len - 1, 1, 2} =>
                  sel.bytes = Pairs(sel.distance, sel.len, "OP_ROLL")

\* C4 amended: roll(w-1, w) emits nothing for every w, roll(1, 2) and
\* roll(2, 3) included; roll(1, w) emits w SWAPs for w # 2; roll(2, w)
\* emits w ROTs for w # 3; for every other distance roll emits w pairs of
\* (distance, ROLL); pick is as stated.
C4_Selector ==
    /\ PickAsClaimed
    /\ (sel.kind = "roll") =>
           IF sel.distance = sel.len - 1 THEN sel.bytes = <<>>
           ELSE IF sel.distance = 1 THEN sel.bytes = Repeat(sel.len, <<Op("OP_SWAP")>>)
           ELSE IF sel.distance = 2 THEN sel.bytes = Repeat(sel.len, <<Op("OP_ROT")>>)
           ELSE sel.bytes = Pairs(sel.distance, sel.len, "OP_ROLL")

\* roll(2, 3) was called and returned no bytes
C4_Witness ==
    /\ sel.kind = "roll"
    /\ sel.distance = 2
    /\ sel.len = 3
    /\ sel.bytes = <<>>

(***************************************************************************)
(* The front-end with functions registered and registered again between    *)
(* the calls of execute (specification SpecRegistry).  The data types are  *)
(* those of RegisteredTypes.                                               *)
(***************************************************************************)
RFunctionChoices ==
    { <<"add", FunctionMetadata(<<"N", "N">>, <<"N">>, FALSE)>>,
      <<"add", FunctionMetadata(<<"&V">>, <<"N">>, FALSE)>> }
RFunctionNames == {"add"}

RAddFunction ==
    \E c \in RFunctionChoices : Building /\ add_function(c[1], c[2])
RAllocInput ==
    \E t \in TypeNames, d \in DataChoices :
        /\ Building
        /\ InputsLocked \/ memory_last_idx < MaxMem
        /\ alloc_input(t, d)
RExecute ==
    \E f \in RFunctionNames, is \in InputIdxChoices(MaxMem), g \in GenChoices :
        /\ Building
        /\ Len(trace) < MaxTrace
        /\ memory_last_idx + Len(g.new_elements) <= MaxMem
        /\ Len(hint) + Len(g.new_hints) <= MaxHint
        /\ execute(f, is, g)

InitRegistry ==
    /\ data_type_registry = RegisteredTypes
    /\ function_registry = EmptyMap
    /\ memory = EmptyMap
    /\ memory_last_idx = 0
    /\ trace = <<>>
    /\ num_inputs = None
    /\ hint = <<>>
    /\ output = <<>>
    /\ last = [op |-> "new", ok |-> TRUE]
    /\ lock_entries = None
    /\ trace_ret = <<>>
    /\ InitCompiler
    /\ sel = NoSel

NextRegistry ==
    \/ RAddFunction
    \/ RAllocInput
    \/ RExecute

SpecRegistry == InitRegistry /\ [][NextRegistry]_vars

(***************************************************************************)
(* Claims about the function registry (specification SpecRegistry).        *)
(***************************************************************************)
\* a formal type without its leading & marker
StripRef(input_type) ==
    IF input_type = "&N" THEN "N" ELSE IF input_type = "&V" THEN "V" ELSE input_type

\* the arguments match the formal types position by position, & markers stripped
ArgumentsMatch(meta, input_idxs) ==
    /\ Len(input_idxs) = Len(meta.input)
    /\ \A i \in 1..Len(input_idxs) :
           /\ input_idxs[i] \in DOMAIN memory
           /\ memory[input_idxs[i]].data_type = StripRef(meta.input[i])

\* C11: every FunctionCall(name, inputs) entry of the trace has as many
\* inputs as the function now registered under name has formal types, and
\* each input's data_type is the formal type at its position, up to a
\* leading & marker.
C11_TraceMatchesRegistry ==
    \A k \in 1..Len(trace) :
        (trace[k].kind = "FunctionCall") =>
            /\ trace[k].name \in DOMAIN function_registry
            /\ ArgumentsMatch(function_registry[trace[k].name], trace[k].inputs)

\* C15: execute accepts its arguments exactly when each one's data_type is
\* the formal type at its position with a leading & marker stripped (and
\* the arity is right): with a trace generator that returns the declared
\* outputs such a call returns Ok and appends its FunctionCall entry, and a
\* call whose arguments do not match returns an error and appends nothing.
C15_ExecuteAcceptance ==
    [][\A f \in RFunctionNames, is \in InputIdxChoices(MaxMem), g \in GenChoices :
          (/\ execute(f, is, g)
           /\ f \in DOMAIN function_registry
           /\ \A i \in 1..Len(is) : is[i] \in DOMAIN memory) =>
              LET meta == function_registry[f] IN
              IF ArgumentsMatch(meta, is)
              THEN (/\ g.ok
                    /\ Len(g.new_elements) = Len(meta.output)
                    /\ \A k \in 1..Len(meta.output) :
                           /\ g.new_elements[k].data_type = meta.output[k]
                           /\ match_type(g.new_elements[k].data,
                                         data_type_registry[meta.output[k]].element_type))
                   => /\ last' = [op |-> "execute", ok |-> TRUE]
                      /\ trace' = Append(trace, FunctionCall(f, is))
              ELSE /\ last' = [op |-> "execute", ok |-> FALSE]
                   /\ trace' = trace]_vars

(***************************************************************************)
(* The compiler on the DSLs built by calls whose data is well typed        *)
(* (specification SpecCalls).  The registries hold a reference-only type   *)
(* whose name starts with &, which is the one kind of value DSL::execute   *)
(* accepts for a formal type marked with &, and functions with zero, one   *)
(* and two outputs, with and without options.  The front-end calls made    *)
(* are those that return Ok, and no output is declared.                    *)
(***************************************************************************)
CallTypes ==
    MapInsert(MapInsert(EmptyMap, "N", [element_type |-> Num, ref_only |-> FALSE]),
              "&V", [element_type |-> ManyNum(2), ref_only |-> TRUE])
CallFunctions ==
    MapInsert(MapInsert(MapInsert(MapInsert(EmptyMap,
        "pair", FunctionMetadata(<<>>, <<"N", "N">>, TRUE)),
        "peek", FunctionMetadata(<<"&V", "N">>, <<>>, TRUE)),
        "drop", FunctionMetadata(<<"N">>, <<>>, FALSE)),
        "bad", FunctionMetadata(<<>>, <<"N">>, FALSE))
CallFunctionNames == {"pair", "peek", "drop", "bad"}
CallEntryChoices == {<<"N", NumData>>, <<"&V", ManyNumData(2)>>}

\* a trace generator that returns the declared outputs of f and no hint
DeclaredGen(f) ==
    [ok |-> TRUE,
     new_elements |-> [k \in 1..Len(CallFunctions[f].output) |-> MemoryEntry("N", NumData)],
     new_hints |-> <<>>]

SAllocInput ==
    \E c \in CallEntryChoices :
        /\ Building
        /\ ~InputsLocked
        /\ memory_last_idx < MaxMemS
        /\ alloc_input(c[1], c[2])
SAllocConstant ==
    /\ Building
    /\ memory_last_idx < MaxMemS
    /\ Len(trace) < MaxTraceS
    /\ alloc_constant("N", NumData)
SExecute ==
    \E f \in CallFunctionNames, is \in InputIdxChoices(MaxMemS) :
        /\ Building
        /\ Len(trace) < MaxTraceS
        /\ memory_last_idx + Len(CallFunctions[f].output) <= MaxMemS
        /\ IsNone(ExecuteError(f, is, DeclaredGen(f)))
        /\ execute(f, is, DeclaredGen(f))
SExecuteWithOptions ==
    \E f \in CallFunctionNames, is \in InputIdxChoices(MaxMemS) :
        /\ Building
        /\ Len(trace) < MaxTraceS
        /\ memory_last_idx + Len(CallFunctions[f].output) <= MaxMemS
        /\ IsNone(ExecuteError(f, is, DeclaredGen(f)))
        /\ execute_with_options(f, is, DeclaredGen(f))
InitCalls ==
    /\ data_type_registry = CallTypes
    /\ function_registry = CallFunctions
    /\ memory = EmptyMap
    /\ memory_last_idx = 0
    /\ trace = <<>>
    /\ num_inputs = None
    /\ hint = <<>>
    /\ output = <<>>
    /\ last = [op |-> "new", ok |-> TRUE]
    /\ lock_entries = None
    /\ trace_ret = <<>>
    /\ InitCompiler
    /\ sel = NoSel

NextCalls ==
    \/ SAllocInput
    \/ SAllocConstant
    \/ SExecute
    \/ SExecuteWithOptions
    \/ CompileStart
    \/ ReplayEntry
    \/ Cleanup
    \/ Recover

SpecCalls == InitCalls /\ [][NextCalls]_vars

(***************************************************************************)
(* Claims about the replay of calls (specification SpecCalls).             *)
(***************************************************************************)
\* the call entry the replay processed last, and its registered metadata
LastCall == trace[trace_pos - 1]
LastCallMeta == function_registry[LastCall.name]
CallReplayed ==
    /\ call_log.kind \in {"FunctionCall", "FunctionCallWithOptions"}
    /\ trace_pos > 1

\* the indices the last call moved, and the stack model it found without them
MovedByCall == {call_log.args[k].idx : k \in {j \in 1..Len(call_log.args) : call_log.args[j].moved}}
BeforeWithoutMoved == SelectSeq(call_log.before, LAMBDA e : e[1] \notin MovedByCall)

\* the entries of k outputs: consecutive indices from first on, declared widths
NewOutputEntries(output_types, first) ==
    [j \in 1..Len(output_types) |->
        <<first + j - 1, ElementTypeLen(data_type_registry[output_types[j]].element_type)>>]

\* C12: after the replay of a call with k declared outputs, through the
\* plain path or the path with options, the stack model is the one the
\* call found (less what it moved) with exactly k new entries on top, which
\* carry the k consecutive indices from the value allocated_idx had before
\* the call, in declared order, the last output topmost, and allocated_idx
\* has advanced by exactly k.
C12_OutputsPushed ==
    CallReplayed =>
        /\ stack = BeforeWithoutMoved
                   \o NewOutputEntries(LastCallMeta.output, call_log.allocated)
        /\ allocated_idx = call_log.allocated + Len(LastCallMeta.output)

\* a call with options that declares two outputs was replayed after an input was loaded
C12_Witness ==
    /\ CallReplayed
    /\ call_log.kind = "FunctionCallWithOptions"
    /\ Len(LastCallMeta.output) = 2
    /\ call_log.allocated = 1
    /\ Len(stack) = 3

(***************************************************************************)
(* Claims about the compiled inputs (specification SpecCompile).           *)
(***************************************************************************)
\* the indices of the entries made by alloc_input below k, in allocation order
RECURSIVE InputIndices(_)
InputIndices(k) ==
    IF k = 0 THEN <<>>
    ELSE InputIndices(k - 1) \o (IF (k - 1) \in AllocatedInputs THEN <<k - 1>> ELSE <<>>)

\* C13: the input list of the compiled program is the sequence of all the
\* entries made by successful alloc_input calls, in allocation order, and
\* at the start of the trace replay each of their indices is live on the
\* stack model, in allocation order from the bottom, with its width; also
\* when no alloc_constant or execute was ever called.
C13_CompiledInputs ==
    LET idxs == InputIndices(memory_last_idx) IN
    /\ (pc \in {"replay", "drain", "cleanup", "recover", "done"}) =>
           input = [j \in 1..Len(idxs) |-> memory[idxs[j]]]
    /\ (call_log.kind = "start") =>
           stack = [j \in 1..Len(idxs) |-> <<idxs[j], ElementLen(memory[idxs[j]].data)>>]

\* the bytes of the drainage loop from position i of output_list_rev on, run on
\* the stack model st: [stack, bytes, total, err]
RECURSIVE DrainFrom(_, _)
DrainFrom(d, i) ==
    IF d.err \/ i > Len(output_list_rev) THEN d
    ELSE LET idx == output_list_rev[i] IN
         IF ~StackLive(d.stack, idx) THEN [d EXCEPT !.err = TRUE]
         ELSE LET pos == get_relative_position(d.stack, idx)
                  len == get_length(d.stack, idx)
                  picks == DrainPicks(i, idx)
              IN  DrainFrom(
                      [stack |-> IF picks THEN d.stack ELSE pull(d.stack, idx),
                       bytes |-> d.bytes \o DrainCopy(picks, pos, len)
                                         \o Repeat(len, <<Op("OP_TOALTSTACK")>>),
                       total |-> d.total + len,
                       err |-> FALSE],
                      i + 1)

\* the bytes emitted for drainage, cleanup and recovery from the stack model st
TailBytes(st) ==
    LET d == DrainFrom([stack |-> st, bytes |-> <<>>, total |-> 0, err |-> FALSE], 1)
    IN  IF d.err THEN <<Op("error")>>
        ELSE d.bytes \o CleanupBytes(get_num_elements_in_stack(d.stack))
                     \o Repeat(d.total, <<Op("OP_FROMALTSTACK")>>)

\* the last two entries replayed are an AllocatedConstant and a FunctionCall
\* that reads that constant only and declares no output
NoOpPairReplayed ==
    /\ CallReplayed
    /\ trace_pos > 2
    /\ call_log.kind = "FunctionCall"
    /\ trace[trace_pos - 2].kind = "AllocatedConstant"
    /\ LastCall.inputs = <<trace[trace_pos - 2].idx>>
    /\ LastCallMeta.output = <<>>
    /\ Len(call_log.before) >= 1

\* the stack model before the constant of the pair was pushed
BeforePair == SubSeq(call_log.before, 1, Len(call_log.before) - 1)

\* C14: a DSL and the DSL with one AllocatedConstant and one FunctionCall
\* appended, the call reading that constant only and declaring no output,
\* get the same bytes for drainage, cleanup and recovery: the bytes emitted
\* from the stack model after the pair are those emitted from the stack
\* model before it.
C14_NoOpPair ==
    NoOpPairReplayed => TailBytes(stack) = TailBytes(BeforePair)

(***************************************************************************)
(* Claims about failing compilations (specification SpecCalls).            *)
(***************************************************************************)
\* the entry the replay is about to process makes the compilation fail: it
\* carries options for a function registered without them, or an argument
\* it names is not live on the stack model, or its script generator fails
EntryFails ==
    LET entry == trace[trace_pos] IN
    /\ pc = "replay"
    /\ IsCall(entry)
    /\ entry.name \in DOMAIN function_registry
    /\ \/ entry.kind = "FunctionCallWithOptions"
          /\ ~function_registry[entry.name].with_options
       \/ \E k \in 1..Len(entry.inputs) : ~StackLive(stack, entry.inputs[k])
       \/ ScriptGeneratorFails(entry.name)

Compilations == 2

DAllocInput ==
    \E c \in CallEntryChoices :
        /\ Building
        /\ compiled = <<>>
        /\ ~InputsLocked
        /\ memory_last_idx < MaxMemD
        /\ alloc_input(c[1], c[2])
DAllocConstant ==
    /\ Building
    /\ compiled = <<>>
    /\ memory_last_idx < MaxMemD
    /\ Len(trace) < MaxTraceD
    /\ alloc_constant("N", NumData)
DExecute ==
    \E f \in CallFunctionNames, is \in InputIdxChoices(MaxMemD) :
        /\ Building
        /\ compiled = <<>>
        /\ Len(trace) < MaxTraceD
        /\ memory_last_idx + Len(CallFunctions[f].output) <= MaxMemD
        /\ IsNone(ExecuteError(f, is, DeclaredGen(f)))
        /\ execute(f, is, DeclaredGen(f))
DExecuteWithOptions ==
    \E f \in CallFunctionNames, is \in InputIdxChoices(MaxMemD) :
        /\ Building
        /\ compiled = <<>>
        /\ Len(trace) < MaxTraceD
        /\ memory_last_idx + Len(CallFunctions[f].output) <= MaxMemD
        /\ IsNone(ExecuteError(f, is, DeclaredGen(f)))
        /\ execute_with_options(f, is, DeclaredGen(f))
DSetProgramOutput ==
    \E i \in 0..(MaxMemD - 1) :
        /\ Building
        /\ compiled = <<>>
        /\ Len(output) < MaxOutputD
        /\ set_program_output(i)

\* the caller hands the same DSL to Compiler::compiler once more
Recompile ==
    /\ pc = "done"
    /\ Len(compiled) < Compilations
    /\ pc' = "build"
    /\ UNCHANGED <<fe_vars, sel, last_visit, input, stack, script, cur_time, allocated_idx,
                   trace_pos, drain_pos, output_total_len, call_log, vm, compiled>>

NextAgain ==
    \/ DAllocInput
    \/ DAllocConstant
    \/ DExecute
    \/ DExecuteWithOptions
    \/ DSetProgramOutput
    \/ CompileStart
    \/ ReplayEntry
    \/ DrainOutput
    \/ Cleanup
    \/ Recover
    \/ Recompile

SpecAgain == InitCalls /\ [][NextAgain]_vars

ModelSlots(st) ==
    Flatten([k \in 1..Len(st) |-> [j \in 1..st[k][2] |-> SlotValue(st[k][1], j)]])

\* the replay stands between two trace entries, or between two drainage steps
BetweenEntries == pc \in {"replay", "drain", "cleanup"}

\* C18: at every point between two trace entries of the replay and between
\* two drainage steps the run-time main stack consists exactly of the slots
\* of the live entries of the stack model, in model order: its depth is the
\* sum of their widths and every live index's block lies at the distance
\* get_relative_position reports.
C18_Correspondence ==
    BetweenEntries =>
        /\ vm.ok
        /\ vm.main = ModelSlots(stack)
        /\ Len(vm.main) = get_num_elements_in_stack(stack)
        /\ \A k \in 1..Len(stack) :
               ItemAt(vm.main, get_relative_position(stack, stack[k][1]))
                   = SlotValue(stack[k][1], 1)

(***************************************************************************)
(* The bytes of roll_script, pick_script and of the drainage copies run on *)
(* the target VM (specification SpecBlock).  The stack model holds up to   *)
(* MaxEntriesB entries of widths 1..MaxWidthB, the run-time stack holds    *)
(* their slots, and one call is made: its arguments, its bytes and the     *)
(* run-time stack it found are kept in sel.                                *)
(***************************************************************************)
StackChoices ==
    UNION {{[k \in 1..n |-> <<k - 1, ws[k]>>] : ws \in [1..n -> 1..MaxWidthB]} :
           n \in 0..MaxEntriesB}

InitBlock ==
    /\ InitDSL
    /\ pc = "build"
    /\ last_visit = <<>>
    /\ input = <<>>
    /\ stack \in StackChoices
    /\ script = <<>>
    /\ cur_time = 0
    /\ allocated_idx = 0
    /\ trace_pos = 1
    /\ drain_pos = 1
    /\ output_total_len = 0
    /\ call_log = [kind |-> "none", time |-> 0, inputs |-> <<>>, args |-> <<>>,
                   ref_positions |-> <<>>, before |-> NewStack, allocated |-> 0]
    /\ vm = [main |-> ModelSlots(stack), alt |-> <<>>, ok |-> TRUE]
    /\ compiled = <<>>
    /\ sel = NoSel

\* the bytes are emitted and run; nothing else of the compiler moves
RunBlock(kind, distance, len, bytes) ==
    /\ sel.kind = "none"
    /\ sel' = [kind |-> kind, distance |-> distance, len |-> len, bytes |-> bytes,
               before |-> vm.main]
    /\ script' = script \o bytes
    /\ vm' = RunOps(vm, bytes)
    /\ UNCHANGED <<fe_vars, pc, last_visit, input, cur_time, allocated_idx, trace_pos,
                   drain_pos, output_total_len, call_log, compiled>>

BlockRoll ==
    \E distance \in 0..MaxDistanceB, len \in 1..MaxWidthB :
        /\ RunBlock("roll", distance, len, roll_script(distance, len))
        /\ UNCHANGED stack
BlockPick ==
    \E distance \in 0..MaxDistanceB, len \in 1..MaxWidthB :
        /\ RunBlock("pick", distance, len, pick_script(distance, len))
        /\ UNCHANGED stack
\* lines 267-268 and 285-290, for a live index
BlockDrainRoll ==
    \E k \in 1..Len(stack) :
        LET idx == stack[k][1]
            pos == get_relative_position(stack, idx)
            len == get_length(stack, idx)
        IN  /\ RunBlock("roll", pos, len, DrainCopy(FALSE, pos, len))
            /\ stack' = pull(stack, idx)
\* lines 267-268 and 272-276, for a live index
BlockDrainPick ==
    \E k \in 1..Len(stack) :
        LET idx == stack[k][1]
            pos == get_relative_position(stack, idx)
            len == get_length(stack, idx)
        IN  /\ RunBlock("pick", pos, len, DrainCopy(TRUE, pos, len))
            /\ UNCHANGED stack

NextBlock ==
    \/ BlockRoll
    \/ BlockPick
    \/ BlockDrainRoll
    \/ BlockDrainPick

SpecBlock == InitBlock /\ [][NextBlock]_vars

\* the run-time stack b without its slots from..to (1 is the bottom slot)
Without(b, from, to) == SubSeq(b, 1, from - 1) \o SubSeq(b, to + 1, Len(b))

\* what a move (roll) or a copy (pick) of the slots from..to of b must leave
Expected(kind, b, from, to) ==
    IF kind = "roll" THEN Without(b, from, to) \o SubSeq(b, from, to)
    ELSE b \o SubSeq(b, from, to)

RECURSIVE RefArguments(_, _, _)
RefArguments(inputs, formal, i) ==
    IF i > Len(inputs) \/ i > Len(formal) THEN <<>>
    ELSE (IF RefMarked(formal[i]) THEN <<inputs[i]>> ELSE <<>>)
         \o RefArguments(inputs, formal, i + 1)

\* C20: the positions handed to the script generator of a call are, for
\* its reference arguments in declaration order, get_relative_position on
\* the stack model as the copies and moves of the other arguments left it
\* (without the entries the call pulled, and without counting the slots the
\* call placed on top); the reference arguments are not pulled by the call
\* and are live after it.
C20_RefPositions ==
    CallReplayed =>
        LET refs == RefArguments(LastCall.inputs, LastCallMeta.input, 1) IN
        /\ Len(call_log.ref_positions) = Len(refs)
        /\ \A k \in 1..Len(refs) :
               /\ StackLive(BeforeWithoutMoved, refs[k])
               /\ call_log.ref_positions[k] = get_relative_position(BeforeWithoutMoved, refs[k])
               /\ \A j \in 1..Len(call_log.args) :
                      call_log.args[j].idx = refs[k] => ~call_log.args[j].moved
               /\ StackLive(stack, refs[k])

\* a call was replayed that takes a reference to a value of width 2 and a
\* copy of the value above it
C20_Witness ==
    /\ CallReplayed
    /\ call_log.ref_positions = <<2>>
    /\ Len(call_log.args) = 1
    /\ LastCall.inputs = <<0, 1>>

(***************************************************************************)
(* Claims about what the front-end calls leave alone (specification Spec). *)
(***************************************************************************)
\* C21: an entry once in memory keeps its data_type and its data and is
\* never removed or overwritten by a later front-end call; set_name(idx,
\* name) changes the description of entry idx only, leaves every other
\* entry, the trace, num_inputs, memory_last_idx and hint as they were, and
\* returns an error without any change when idx is not in memory.
C21_MemoryFrame ==
    [][/\ \A i \in DOMAIN memory :
              /\ i \in DOMAIN memory'
              /\ memory'[i].data_type = memory[i].data_type
              /\ memory'[i].data = memory[i].data
       /\ \A idx \in 0..MaxMem :
              set_name(idx, "x") =>
                  /\ trace' = trace
                  /\ num_inputs' = num_inputs
                  /\ memory_last_idx' = memory_last_idx
                  /\ hint' = hint
                  /\ DOMAIN memory' = DOMAIN memory
                  /\ \A j \in DOMAIN memory \ {idx} : memory'[j] = memory[j]
                  /\ IF idx \in DOMAIN memory
                     THEN /\ last' = [op |-> "set_name", ok |-> TRUE]
                          /\ memory'[idx].description = Some("x")
                     ELSE /\ last' = [op |-> "set_name", ok |-> FALSE]
                          /\ memory' = memory]_vars

\* an entry was named after a call had been recorded, next to another entry
C21_Witness ==
    /\ last = [op |-> "set_name", ok |-> TRUE]
    /\ 0 \in DOMAIN memory
    /\ memory[0].description = Some("x")
    /\ Cardinality(DOMAIN memory) >= 2
    /\ trace # <<>>

(***************************************************************************)
(* The compiler on DSLs that allocate hints (specification SpecHint).  No  *)
(* front-end call of src/src/dsl.rs records an AllocatedHint entry, so the *)
(* DSLs are drawn as the data model describes them: the first num_inputs   *)
(* memory entries are inputs, every further entry is a hint with its       *)
(* AllocatedHint trace entry, and hint lists the hints in that order.      *)
(***************************************************************************)
\* a value of the registered type t
DataOf(t) == IF t = "N" THEN NumData ELSE ManyNumData(2)

HintMemory(ts) == [i \in 0..(Len(ts) - 1) |-> MemoryEntry(ts[i + 1], DataOf(ts[i + 1]))]

InitHint ==
    /\ \E ni \in 0..MaxInputsH, nh \in 1..MaxHintsH :
         \E ts \in [1..(ni + nh) -> {"N", "V"}] :
            /\ memory = HintMemory(ts)
            /\ memory_last_idx = ni + nh
            /\ num_inputs = Some(ni)
            /\ lock_entries = Some(ni)
            /\ trace = [k \in 1..nh |-> AllocatedHint(ni + k - 1)]
            /\ trace_ret = [k \in 1..nh |-> <<ni + k - 1>>]
            /\ hint = [k \in 1..nh |-> HintMemory(ts)[ni + k - 1]]
    /\ data_type_registry = RegisteredTypes
    /\ function_registry = EmptyMap
    /\ output = <<>>
    /\ last = [op |-> "new", ok |-> TRUE]
    /\ InitCompiler
    /\ sel = NoSel

NextHint ==
    \/ CompileStart
    \/ ReplayEntry
    \/ Cleanup
    \/ Recover

SpecHint == InitHint /\ [][NextHint]_vars

\* the number of slots of the hints not yet consumed
UnconsumedHintSlots == Len(HintSlots(trace, trace_pos))

\* the replay is about to process an AllocatedHint entry, and the hints not
\* yet consumed lie at the bottom of the main stack in hint order
HintsAtBottom ==
    /\ pc = "replay"
    /\ trace[trace_pos].kind = "AllocatedHint"
    /\ vm.ok
    /\ Len(vm.main) >= UnconsumedHintSlots
    /\ SubSeq(vm.main, 1, UnconsumedHintSlots) = HintSlots(trace, trace_pos)

\* C22: the replay of AllocatedHint(idx) of width w emits exactly w times
\* (DEPTH, 1SUB, ROLL) and pushes (idx, w) on the stack model; run where
\* the unconsumed hints lie at the bottom of the main stack in hint order,
\* the opcodes leave the slots of the hint on top in element order, the
\* remaining hints at the bottom in order, and every other slot where it
\* was relative to the others.
C22_HintLift ==
    [][HintsAtBottom =>
          LET idx == trace[trace_pos].idx
              w == ElementTypeLen(data_type_registry[memory[idx].data_type].element_type)
              others == SubSeq(vm.main, UnconsumedHintSlots + 1, Len(vm.main))
          IN  /\ script' = script \o Repeat(w, <<Op("OP_DEPTH"), Op("OP_1SUB"), Op("OP_ROLL")>>)
              /\ stack' = Append(stack, <<idx, w>>)
              /\ vm'.ok
              /\ vm'.main = HintSlots(trace, trace_pos + 1) \o others
                               \o [j \in 1..w |-> SlotValue(idx, j)]]_vars

\* the second of two hints, of width 2, was lifted over an input and the first hint
C22_Witness ==
    /\ call_log.kind = "AllocatedHint"
    /\ trace_pos = 3
    /\ num_inputs = Some(1)
    /\ get_length(stack, 2) = 2
    /\ vm.ok
    /\ vm.main = ModelSlots(stack)

\* C23: a front-end call that returns an error (alloc_input, alloc_constant
\* or execute) leaves memory, memory_last_idx, trace, num_inputs and hint
\* exactly as they were before the call.
C23_ErrorLeavesState ==
    [][(/\ last'.op \in {"alloc_input", "alloc_constant", "execute"}
        /\ ~last'.ok)
       => /\ memory' = memory
          /\ memory_last_idx' = memory_last_idx
          /\ trace' = trace
          /\ num_inputs' = num_inputs
          /\ hint' = hint]_vars

(***************************************************************************)
(* Claims about the indices of the replay (specification SpecCompile).     *)
(***************************************************************************)
\* C24: for every DSL the front-end calls can build, failed calls included,
\* the index the compiler gives each output of a call and each constant
\* during the replay (allocated_idx, which starts at num_inputs and
\* advances per value produced) is the memory index the front-end gave
\* that value.
C24_ReplayIndices ==
    /\ CallReplayed =>
           \A k \in 1..Len(trace_ret[trace_pos - 1]) :
               trace_ret[trace_pos - 1][k] = call_log.allocated + k - 1
    /\ (call_log.kind = "AllocatedConstant" /\ trace_pos > 1) =>
           trace[trace_pos - 1].idx = call_log.allocated

====
